---- MODULE Spec2Model ----
(***************************************************************************)
(* Model of src/relay/op/nn/convolution_make.h: the six convolution call   *)
(* builders MakeConv, MakeFusedConv2D, MakeConvWinograd, MakeConvGemm,     *)
(* MakeConvTranspose and MakeDeformableConv.                               *)
(*                                                                         *)
(* Every builder is straight-line code: allocate an attribute record,      *)
(* assign its fields one statement at a time, look the operator up by      *)
(* name, construct the call node.  A builder body is written here as the   *)
(* sequence of its statements, and one action executes one statement of    *)
(* one running invocation, so that invocations of several threads          *)
(* interleave statement by statement.                                      *)
(***************************************************************************)
EXTENDS Integers, Sequences, FiniteSets, TLC

VARIABLES
  th,     \* thread id -> the builder invocation the thread is running
  heap,   \* address -> attribute record object (make_object<T> storage)
  nodes   \* the call nodes constructed so far, in order of construction, each
          \* with the invocation that built it and the record contents it bound

vars == <<th, heap, nodes>>

(***************************************************************************)
(* Bounds.                                                                 *)
(***************************************************************************)
\* builder invocations made by the single caller of Spec
MaxCalls == 2
\* how many of the argument vectors below a caller chooses from
NumVectors == 2

\* the concurrently running callers of SpecConc, each making one invocation
Threads == {1, 2}

\* addresses the allocator hands out; at most one record per invocation is live
Addrs == 1 .. (MaxCalls + 1)

(***************************************************************************)
(* Values.                                                                 *)
(***************************************************************************)
\* IndexExpr values: an integer immediate or a symbolic variable
IntImm(n) == [kind |-> "IntImm", dtype |-> "int32", value |-> n]
SymVar(s) == [kind |-> "Var", name |-> s]

\* `attrs->channels = channels' with `int channels': the implicit int -> IndexExpr
\* conversion of the deformable builder
IntToIndexExpr(n) == IntImm(n)

\* the operator registry: registered name -> operator descriptor
Registry ==
  [n \in {"nn.conv2d", "nn.contrib_conv2d_winograd_without_weight_transform"} |->
     [descriptor |-> n]]

\* the names a caller may pass as op_name: two registered, one not
OpNames == DOMAIN Registry \cup {"nn.not_registered"}

\* the state of a parameter after std::move(parameter) took its value
MovedFrom == "moved-from"

(***************************************************************************)
(* Argument vectors: the values a caller supplies.  Vector 1 is the        *)
(* concrete scenario of the specification (section 8) with fused per-layer *)
(* arrays of length 2; the other vectors give every two parameters of the  *)
(* same type different values and give the fused per-layer arrays lengths  *)
(* that differ from each other and from 2.                                 *)
(***************************************************************************)
Vectors == <<
  [ data |-> "%data", weight |-> "%weight", offset |-> "%offset",
    weight1 |-> "%weight1", bias1 |-> "%bias1",
    weight2 |-> "%weight2", bias2 |-> "%bias2",
    strides |-> <<1, 1>>, padding |-> <<0, 0, 0, 0>>, dilation |-> <<1, 1>>,
    groups |-> 1, deformable_groups |-> 1, tile_size |-> 4,
    channels |-> IntImm(64), nchannels |-> 64,
    kernel_size |-> <<3, 3>>, output_padding |-> <<0, 0>>,
    data_layout |-> "NCHW", kernel_layout |-> "OIHW", out_layout |-> "",
    out_dtype |-> "float32",
    strides_array |-> << <<1, 1>>, <<1, 1>> >>,
    padding_array |-> << <<0, 0, 0, 0>>, <<1, 1, 1, 1>> >>,
    dilation_array |-> << <<1, 1>>, <<1, 1>> >>,
    groups_array |-> <<1, 64>>,
    channels_array |-> <<IntImm(64), IntImm(128)>>,
    kernel_size_array |-> << <<1, 1>>, <<3, 3>> >>,
    post_op_array |-> <<"relu", "bias">>,
    data_layout_array |-> <<"NCHW", "NCHW">>,
    kernel_layout_array |-> <<"OIHW", "OIHW">>,
    out_layout_array |-> <<"", "">> ],
  [ data |-> "%0", weight |-> "%1", offset |-> "%2",
    weight1 |-> "%3", bias1 |-> "%4", weight2 |-> "%5", bias2 |-> "%6",
    strides |-> <<2, 2>>, padding |-> <<1, 1>>, dilation |-> <<1, 2>>,
    groups |-> 2, deformable_groups |-> 4, tile_size |-> 6,
    channels |-> SymVar("oc"), nchannels |-> 32,
    kernel_size |-> <<5, 5>>, output_padding |-> <<1, 0>>,
    data_layout |-> "NHWC", kernel_layout |-> "HWIO", out_layout |-> "NCHW4c",
    out_dtype |-> "int32",
    strides_array |-> << <<2, 2>> >>,
    padding_array |-> << <<1, 1>>, <<0, 0>>, <<2, 2>> >>,
    dilation_array |-> << <<1, 2>>, <<2, 1>> >>,
    groups_array |-> << >>,
    channels_array |-> <<SymVar("c1"), IntImm(8), IntImm(16)>>,
    kernel_size_array |-> << <<5, 5>> >>,
    post_op_array |-> <<"relu6", "sigmoid">>,
    data_layout_array |-> <<"NHWC">>,
    kernel_layout_array |-> <<"HWIO", "HWOI", "OIHW">>,
    out_layout_array |-> << >> ],
  [ data |-> "%a", weight |-> "%b", offset |-> "%c",
    weight1 |-> "%d", bias1 |-> "%e", weight2 |-> "%f", bias2 |-> "%g",
    strides |-> <<3, 1>>, padding |-> <<2, 0, 2, 0>>, dilation |-> <<2, 2>>,
    groups |-> 8, deformable_groups |-> 2, tile_size |-> 2,
    channels |-> IntImm(0), nchannels |-> 0 - 1,
    kernel_size |-> <<7, 1>>, output_padding |-> <<2, 2>>,
    data_layout |-> "NCHW8c", kernel_layout |-> "OIHW8i8o", out_layout |-> "NHWC",
    out_dtype |-> "float16",
    strides_array |-> << <<3, 1>>, <<1, 3>>, <<1, 1>> >>,
    padding_array |-> << >>,
    dilation_array |-> << <<2, 2>> >>,
    groups_array |-> <<8, 4, 2, 1>>,
    channels_array |-> <<IntImm(0)>>,
    kernel_size_array |-> << <<7, 1>>, <<1, 7>> >>,
    post_op_array |-> << >>,
    data_layout_array |-> <<"NCHW8c", "NHWC", "NCHW">>,
    kernel_layout_array |-> <<"OIHW8i8o">>,
    out_layout_array |-> <<"NHWC", "NCHW">> ] >>

(***************************************************************************)
(* Signatures: the parameters of each builder, inputs first.               *)
(***************************************************************************)
Builders == {"MakeConv", "MakeFusedConv2D", "MakeConvWinograd", "MakeConvGemm",
             "MakeConvTranspose", "MakeDeformableConv"}

\* the ten configuration parameters of MakeConv, in declaration order
CommonParams == <<"strides", "padding", "dilation", "groups", "channels",
                  "kernel_size", "data_layout", "kernel_layout", "out_layout",
                  "out_dtype">>

FusedParams == <<"strides_array", "padding_array", "dilation_array", "groups_array",
                 "channels_array", "kernel_size_array", "post_op_array",
                 "data_layout_array", "kernel_layout_array", "out_layout_array",
                 "out_dtype">>

Range(s) == {s[i] : i \in DOMAIN s}

InputParams(b) ==
  CASE b = "MakeFusedConv2D" -> <<"data", "weight1", "bias1", "weight2", "bias2">>
    [] b = "MakeDeformableConv" -> <<"data", "offset", "weight">>
    [] OTHER -> <<"data", "weight">>

ConfigParams(b) ==
  CASE b = "MakeFusedConv2D" -> Range(FusedParams)
    [] b = "MakeConvWinograd" -> Range(CommonParams) \cup {"tile_size"}
    [] b = "MakeConvTranspose" -> Range(CommonParams) \cup {"output_padding"}
    [] b = "MakeDeformableConv" -> Range(CommonParams) \cup {"deformable_groups"}
    [] OTHER -> Range(CommonParams)

\* the argument record of a call of builder b with vector k and operator name n;
\* MakeDeformableConv declares `int channels', the others `IndexExpr channels'
Args(b, k, n) ==
  [p \in Range(InputParams(b)) \cup ConfigParams(b) \cup {"op_name"} |->
     IF p = "op_name" THEN n
     ELSE IF p = "channels" /\ b = "MakeDeformableConv" THEN Vectors[k].nchannels
     ELSE Vectors[k][p]]

(***************************************************************************)
(* Statements.  A builder body is a sequence of statements, one per source *)
(* line; `line' is the line of convolution_make.h the statement stands on. *)
(***************************************************************************)
\* auto attrs = make_object<T>();
New(l) == [k |-> "new", line |-> l]
\* attrs->f = std::move(f);
Mv(l, f) == [k |-> "move", line |-> l, f |-> f, p |-> f]
\* attrs->f = p;   (copy assignment from parameter p)
Cp(l, f, p) == [k |-> "copy", line |-> l, f |-> f, p |-> p]
\* attrs->f = p;   with `int p' and an IndexExpr field
Cv(l, f, p) == [k |-> "convert", line |-> l, f |-> f, p |-> p]
\* attrs->f = v;   (a literal)
Lit(l, f, v) == [k |-> "const", line |-> l, f |-> f, v |-> v]
\* const Op& op = Op::Get(op_name);
Get(l) == [k |-> "get", line |-> l]
\* return Call(op, {inputs...}, Attrs(attrs), {});
Ret(l, inputs) == [k |-> "call", line |-> l, inputs |-> inputs]

\* MakeConv with lines 50 and 51 reading each other's parameter
MakeConv_LayoutsCrossed ==
  << New(43),
     Mv(44, "strides"), Mv(45, "padding"), Mv(46, "dilation"),
     Cp(47, "groups", "groups"),
     Mv(48, "channels"), Mv(49, "kernel_size"),
     [k |-> "move", line |-> 50, f |-> "data_layout", p |-> "kernel_layout"],
     [k |-> "move", line |-> 51, f |-> "kernel_layout", p |-> "data_layout"],
     Mv(52, "out_layout"), Mv(53, "out_dtype"),
     Get(54),
     Ret(55, <<"data", "weight">>) >>

MakeConv ==
  << New(43),
     Mv(44, "strides"), Mv(45, "padding"), Mv(46, "dilation"),
     Cp(47, "groups", "groups"),
     Mv(48, "channels"), Mv(49, "kernel_size"), Mv(50, "data_layout"),
     Mv(51, "kernel_layout"), Mv(52, "out_layout"), Mv(53, "out_dtype"),
     Get(54),
     Ret(55, <<"data", "weight">>) >>

\* MakeFusedConv2D without line 75
MakeFusedConv2D_NoLayerCount ==
  << New(74),
     Mv(76, "strides_array"), Mv(77, "padding_array"), Mv(78, "dilation_array"),
     Mv(79, "groups_array"), Mv(80, "channels_array"), Mv(81, "kernel_size_array"),
     Mv(82, "post_op_array"), Mv(83, "data_layout_array"),
     Mv(84, "kernel_layout_array"), Mv(85, "out_layout_array"),
     Mv(86, "out_dtype"),
     Get(87),
     Ret(88, <<"data", "weight1", "bias1", "weight2", "bias2">>) >>

\* MakeFusedConv2D with line 78 storing the strides a second time
MakeFusedConv2D_DilationFromStrides ==
  << New(74),
     Lit(75, "num_layers", 2),
     Cp(76, "strides_array", "strides_array"), Mv(77, "padding_array"),
     [k |-> "move", line |-> 78, f |-> "dilation_array", p |-> "strides_array"],
     Mv(79, "groups_array"), Mv(80, "channels_array"), Mv(81, "kernel_size_array"),
     Mv(82, "post_op_array"), Mv(83, "data_layout_array"),
     Mv(84, "kernel_layout_array"), Mv(85, "out_layout_array"),
     Mv(86, "out_dtype"),
     Get(87),
     Ret(88, <<"data", "weight1", "bias1", "weight2", "bias2">>) >>

MakeFusedConv2D ==
  << New(74),
     Lit(75, "num_layers", 2),
     Mv(76, "strides_array"), Mv(77, "padding_array"), Mv(78, "dilation_array"),
     Mv(79, "groups_array"), Mv(80, "channels_array"), Mv(81, "kernel_size_array"),
     Mv(82, "post_op_array"), Mv(83, "data_layout_array"),
     Mv(84, "kernel_layout_array"), Mv(85, "out_layout_array"),
     Mv(86, "out_dtype"),
     Get(87),
     Ret(88, <<"data", "weight1", "bias1", "weight2", "bias2">>) >>

\* MakeConvWinograd with line 102 storing tile_size into groups
MakeConvWinograd_TileIntoGroups ==
  << New(97),
     Cp(98, "tile_size", "tile_size"),
     Mv(99, "strides"), Mv(100, "padding"), Mv(101, "dilation"),
     Cp(102, "groups", "tile_size"),
     Mv(103, "channels"), Mv(104, "kernel_size"), Mv(105, "data_layout"),
     Mv(106, "kernel_layout"), Mv(107, "out_layout"), Mv(108, "out_dtype"),
     Get(109),
     Ret(110, <<"data", "weight">>) >>

MakeConvWinograd ==
  << New(97),
     Cp(98, "tile_size", "tile_size"),
     Mv(99, "strides"), Mv(100, "padding"), Mv(101, "dilation"),
     Cp(102, "groups", "groups"),
     Mv(103, "channels"), Mv(104, "kernel_size"), Mv(105, "data_layout"),
     Mv(106, "kernel_layout"), Mv(107, "out_layout"), Mv(108, "out_dtype"),
     Get(109),
     Ret(110, <<"data", "weight">>) >>

\* MakeConvGemm resolving the operator twice
MakeConvGemm_TwoLookups ==
  << New(119),
     Mv(120, "strides"), Mv(121, "padding"), Mv(122, "dilation"),
     Cp(123, "groups", "groups"),
     Mv(124, "channels"), Mv(125, "kernel_size"), Mv(126, "data_layout"),
     Mv(127, "kernel_layout"), Mv(128, "out_layout"), Mv(129, "out_dtype"),
     Get(130), Get(130),
     Ret(131, <<"data", "weight">>) >>

MakeConvGemm ==
  << New(119),
     Mv(120, "strides"), Mv(121, "padding"), Mv(122, "dilation"),
     Cp(123, "groups", "groups"),
     Mv(124, "channels"), Mv(125, "kernel_size"), Mv(126, "data_layout"),
     Mv(127, "kernel_layout"), Mv(128, "out_layout"), Mv(129, "out_dtype"),
     Get(130),
     Ret(131, <<"data", "weight">>) >>

\* MakeConvTranspose with lines 151 and 152 exchanged
MakeConvTranspose_PaddingLast ==
  << New(141),
     Mv(142, "strides"), Mv(143, "padding"), Mv(144, "dilation"),
     Cp(145, "groups", "groups"),
     Mv(146, "channels"), Mv(147, "kernel_size"), Mv(148, "data_layout"),
     Mv(149, "kernel_layout"), Mv(150, "out_layout"),
     Mv(152, "out_dtype"),
     Mv(151, "output_padding"),
     Get(153),
     Ret(154, <<"data", "weight">>) >>

MakeConvTranspose ==
  << New(141),
     Mv(142, "strides"), Mv(143, "padding"), Mv(144, "dilation"),
     Cp(145, "groups", "groups"),
     Mv(146, "channels"), Mv(147, "kernel_size"), Mv(148, "data_layout"),
     Mv(149, "kernel_layout"), Mv(150, "out_layout"),
     Mv(151, "output_padding"),
     Mv(152, "out_dtype"),
     Get(153),
     Ret(154, <<"data", "weight">>) >>

\* MakeDeformableConv passing {data, weight, offset} to Call
MakeDeformableConv_WeightBeforeOffset ==
  << New(164),
     Cp(165, "strides", "strides"), Cp(166, "padding", "padding"),
     Cp(167, "dilation", "dilation"),
     Cp(168, "deformable_groups", "deformable_groups"),
     Cp(169, "groups", "groups"),
     Cv(170, "channels", "channels"),
     Cp(171, "kernel_size", "kernel_size"), Cp(172, "data_layout", "data_layout"),
     Cp(173, "kernel_layout", "kernel_layout"), Cp(174, "out_layout", "out_layout"),
     Cp(175, "out_dtype", "out_dtype"),
     Get(176),
     Ret(177, <<"data", "weight", "offset">>) >>

MakeDeformableConv ==
  << New(164),
     Cp(165, "strides", "strides"), Cp(166, "padding", "padding"),
     Cp(167, "dilation", "dilation"),
     Cp(168, "deformable_groups", "deformable_groups"),
     Cp(169, "groups", "groups"),
     Cv(170, "channels", "channels"),
     Cp(171, "kernel_size", "kernel_size"), Cp(172, "data_layout", "data_layout"),
     Cp(173, "kernel_layout", "kernel_layout"), Cp(174, "out_layout", "out_layout"),
     Cp(175, "out_dtype", "out_dtype"),
     Get(176),
     Ret(177, <<"data", "offset", "weight">>) >>

Body(b) ==
  CASE b = "MakeConv" -> MakeConv
    [] b = "MakeFusedConv2D" -> MakeFusedConv2D
    [] b = "MakeConvWinograd" -> MakeConvWinograd
    [] b = "MakeConvGemm" -> MakeConvGemm
    [] b = "MakeConvTranspose" -> MakeConvTranspose
    [] b = "MakeDeformableConv" -> MakeDeformableConv

(***************************************************************************)
(* What a statement does.                                                  *)
(***************************************************************************)
\* an attribute record maps the fields assigned so far to their values
NoFields == [g \in {} |-> 0]

\* attrs->f = v
Store(r, f, v) == [g \in DOMAIN r \cup {f} |-> IF g = f THEN v ELSE r[g]]

\* the value of parameter p in frame fr: what the caller passed, until a
\* std::move took it
ReadParam(fr, p) == IF p \in fr.moved THEN MovedFrom ELSE fr.args[p]

\* the value an assignment statement i stores, evaluated in frame fr
Rhs(fr, i) ==
  CASE i.k = "move" -> ReadParam(fr, i.p)
    [] i.k = "copy" -> ReadParam(fr, i.p)
    [] i.k = "convert" -> IntToIndexExpr(ReadParam(fr, i.p))
    [] i.k = "const" -> i.v

\* Op::Get called with a fixed name instead of the parameter
LookupName_Literal(fr) == "nn.conv2d"

\* the name handed to Op::Get: the op_name parameter
LookupName(fr) == ReadParam(fr, "op_name")

\* make_object: storage that holds no live object (the lowest such address)
make_object(h) == CHOOSE a \in Addrs : ~h[a].live /\ \A c \in Addrs : c < a => h[c].live

\* `static auto attrs = make_object<T>()': one record shared by all invocations
NewAttrs_Static(h) == CHOOSE a \in Addrs : \A c \in Addrs : a <= c

\* a record kept from the previous call and handed out again while it is live
NewAttrs_Cached(h) ==
  IF \E a \in Addrs : h[a].live
  THEN CHOOSE a \in Addrs : h[a].live /\ \A c \in Addrs : h[c].live => c <= a
  ELSE CHOOSE a \in Addrs : ~h[a].live /\ \A c \in Addrs : c < a => h[c].live

\* `auto attrs = make_object<T>()': a local of the invocation, allocated anew on
\* every call
NewAttrs(h) == make_object(h)

\* Call(op, args, attrs, type_args)
Call(op, args, attrs) == [op |-> op, args |-> args, attrs |-> attrs, type_args |-> << >>]

\* the local `op' before Op::Get has returned
NoOp == [descriptor |-> "none"]

FreeCell == [live |-> FALSE, fields |-> NoFields, by |-> <<0, 0>>]

(***************************************************************************)
(* State.  A frame is one thread's current (or last) builder invocation:   *)
(* its parameters, the local `attrs', the local `op', the statement it is  *)
(* at, and how it ended.  `trace' and `lookups' record what the invocation *)
(* has executed.                                                           *)
(***************************************************************************)
IdleFrame(n) ==
  [ status |-> "idle", left |-> n, ncalls |-> 0, builder |-> "none",
    args |-> NoFields, moved |-> {}, pc |-> 0, attrs |-> 0, op |-> NoOp,
    result |-> 0, err |-> "none", trace |-> << >>, lookups |-> << >> ]

\* one caller making up to MaxCalls invocations one after another
Init ==
  /\ th = [t \in {1} |-> IdleFrame(MaxCalls)]
  /\ heap = [a \in Addrs |-> FreeCell]
  /\ nodes = << >>

\* several threads, each making one invocation, with no synchronization
InitConc ==
  /\ th = [t \in Threads |-> IdleFrame(1)]
  /\ heap = [a \in Addrs |-> FreeCell]
  /\ nodes = << >>

Instr(t) == Body(th[t].builder)[th[t].pc]
Running(t) == th[t].status = "running"
InvId(t) == <<t, th[t].ncalls>>

\* a call of builder b with argument vector k and operator name n enters the body
Invoke(t) ==
  /\ th[t].status # "running"
  /\ th[t].left > 0
  /\ \E b \in Builders, k \in 1 .. NumVectors, n \in OpNames :
       th' = [th EXCEPT ![t] =
                [ status |-> "running", left |-> @.left - 1, ncalls |-> @.ncalls + 1,
                  builder |-> b, args |-> Args(b, k, n), moved |-> {}, pc |-> 1,
                  attrs |-> 0, op |-> NoOp, result |-> 0, err |-> "none",
                  trace |-> << >>, lookups |-> << >> ]]
  /\ UNCHANGED <<heap, nodes>>

\* auto attrs = make_object<T>();
MakeObject(t) ==
  /\ Running(t) /\ Instr(t).k = "new"
  /\ LET a == NewAttrs(heap) IN
       /\ heap' = [heap EXCEPT ![a] = [live |-> TRUE, fields |-> NoFields, by |-> InvId(t)]]
       /\ th' = [th EXCEPT ![t].attrs = a, ![t].pc = @ + 1,
                           ![t].trace = Append(@, <<"new", "attrs">>)]
  /\ UNCHANGED nodes

\* the assignment statement i of frame t: attrs->f = <rhs>
Assign(t, i) ==
  /\ heap' = [heap EXCEPT ![th[t].attrs].fields = Store(@, i.f, Rhs(th[t], i))]
  /\ th' = [th EXCEPT ![t].pc = @ + 1,
                      ![t].moved = IF i.k = "move" THEN @ \cup {i.p} ELSE @,
                      ![t].trace = Append(@, <<"write", i.f>>)]
  /\ UNCHANGED nodes

\* attrs->f = std::move(f);
MoveAssign(t) == Running(t) /\ Instr(t).k = "move" /\ Assign(t, Instr(t))

\* attrs->f = f;
CopyAssign(t) == Running(t) /\ Instr(t).k = "copy" /\ Assign(t, Instr(t))

\* attrs->channels = channels;  (int to IndexExpr)
ConvertAssign(t) == Running(t) /\ Instr(t).k = "convert" /\ Assign(t, Instr(t))

\* fused_conv2d_attrs->num_layers = 2;
ConstAssign(t) == Running(t) /\ Instr(t).k = "const" /\ Assign(t, Instr(t))

\* const Op& op = Op::Get(op_name);  the name is registered
OpGet(t) ==
  /\ Running(t) /\ Instr(t).k = "get"
  /\ LookupName(th[t]) \in DOMAIN Registry
  /\ th' = [th EXCEPT ![t].op = Registry[LookupName(th[t])], ![t].pc = @ + 1,
                      ![t].lookups = Append(@, LookupName(th[t])),
                      ![t].trace = Append(@, <<"get", "op">>)]
  /\ UNCHANGED <<heap, nodes>>

\* const Op& op = Op::Get(op_name);  the name is not registered: Op::Get throws,
\* the builder catches nothing, unwinding destroys the local `attrs' (the only
\* reference to the record) and the error reaches the caller
OpGetThrow(t) ==
  /\ Running(t) /\ Instr(t).k = "get"
  /\ LookupName(th[t]) \notin DOMAIN Registry
  /\ th' = [th EXCEPT ![t].status = "threw", ![t].err = "unknown-operator",
                      ![t].attrs = 0,
                      ![t].lookups = Append(@, LookupName(th[t])),
                      ![t].trace = Append(@, <<"get", "op">>)]
  /\ heap' = [heap EXCEPT ![th[t].attrs] = FreeCell]
  /\ UNCHANGED nodes

\* return Call(op, {inputs...}, Attrs(attrs), {});
MakeCall(t) ==
  /\ Running(t) /\ Instr(t).k = "call"
  /\ LET ins == [j \in DOMAIN Instr(t).inputs |-> ReadParam(th[t], Instr(t).inputs[j])] IN
       nodes' = Append(nodes, [ node |-> Call(th[t].op, ins, th[t].attrs),
                                by |-> InvId(t), builder |-> th[t].builder,
                                bound |-> heap[th[t].attrs].fields ])
  /\ th' = [th EXCEPT ![t].status = "returned", ![t].result = Len(nodes) + 1,
                      ![t].trace = Append(@, <<"call", "node">>)]
  /\ UNCHANGED heap

Next ==
  \/ \E t \in DOMAIN th : Invoke(t)
  \/ \E t \in DOMAIN th : MakeObject(t)
  \/ \E t \in DOMAIN th : MoveAssign(t)
  \/ \E t \in DOMAIN th : CopyAssign(t)
  \/ \E t \in DOMAIN th : ConvertAssign(t)
  \/ \E t \in DOMAIN th : ConstAssign(t)
  \/ \E t \in DOMAIN th : OpGet(t)
  \/ \E t \in DOMAIN th : OpGetThrow(t)
  \/ \E t \in DOMAIN th : MakeCall(t)

Spec == Init /\ [][Next]_vars

SpecConc == InitConc /\ [][Next]_vars

(***************************************************************************)
(* A builder run alone: the statements of Body(b) executed one after the   *)
(* other on a machine of its own, with nothing else running.               *)
(***************************************************************************)
AloneStart(args) ==
  [ args |-> args, moved |-> {}, fields |-> NoFields, op |-> NoOp,
    out |-> [kind |-> "none"] ]

AloneStmt(m, i) ==
  CASE i.k = "new" -> [m EXCEPT !.fields = NoFields]
    [] i.k \in {"move", "copy", "convert", "const"} ->
         [m EXCEPT !.fields = Store(@, i.f, Rhs(m, i)),
                   !.moved = IF i.k = "move" THEN @ \cup {i.p} ELSE @]
    [] i.k = "get" ->
         IF LookupName(m) \in DOMAIN Registry
         THEN [m EXCEPT !.op = Registry[LookupName(m)]]
         ELSE [m EXCEPT !.out = [kind |-> "error", what |-> "unknown-operator"]]
    [] i.k = "call" ->
         [m EXCEPT !.out =
            [ kind |-> "call", op |-> m.op,
              inputs |-> [j \in DOMAIN i.inputs |-> ReadParam(m, i.inputs[j])],
              fields |-> m.fields ]]

RECURSIVE AloneRun(_, _, _)
\* the machine after the first n statements of body, or after the statement that ended it
AloneRun(m, body, n) ==
  IF n = 0 THEN m
  ELSE LET before == AloneRun(m, body, n - 1) IN
         IF before.out.kind # "none" THEN before ELSE AloneStmt(before, body[n])

\* how a call builder(args) ends when run alone
Alone(b, args) == AloneRun(AloneStart(args), Body(b), Len(Body(b))).out

(***************************************************************************)
(* Notation for the properties.                                            *)
(***************************************************************************)
Returned(t) == th[t].status = "returned"
Threw(t) == th[t].status = "threw"
NodeOf(t) == nodes[th[t].result].node
RecordOf(t) == heap[NodeOf(t).attrs].fields
Registered(t) == th[t].args.op_name \in DOMAIN Registry
TwoInputBuilders == {"MakeConv", "MakeConvWinograd", "MakeConvGemm", "MakeConvTranspose"}
Count(s, e) == Cardinality({i \in DOMAIN s : s[i] = e})
Pos(s, e) == CHOOSE i \in DOMAIN s : s[i] = e
\* the fields written so far, in the order they were written
Writes(t) ==
  LET RECURSIVE W(_)
      W(n) == IF n = 0 THEN << >>
              ELSE IF th[t].trace[n][1] = "write" THEN Append(W(n - 1), th[t].trace[n][2])
              ELSE W(n - 1)
  IN W(Len(th[t].trace))

\* the fields the attribute record type of builder b declares
DeclaredFields(b) ==
  IF b = "MakeFusedConv2D" THEN ConfigParams(b) \cup {"num_layers"} ELSE ConfigParams(b)

(***************************************************************************)
(* C1.  A successful call returns a call node whose inputs are, in this    *)
(* order and with nothing dropped, duplicated or reordered: [data, weight] *)
(* for MakeConv, MakeConvWinograd, MakeConvGemm and MakeConvTranspose,     *)
(* [data, offset, weight] for MakeDeformableConv, and [data, weight1,      *)
(* bias1, weight2, bias2] for MakeFusedConv2D.                             *)
(***************************************************************************)
C1_InputOrder ==
  \A t \in DOMAIN th :
    Returned(t) =>
      LET a == th[t].args
          b == th[t].builder
      IN /\ b \in TwoInputBuilders => NodeOf(t).args = <<a.data, a.weight>>
         /\ b = "MakeDeformableConv" => NodeOf(t).args = <<a.data, a.offset, a.weight>>
         /\ b = "MakeFusedConv2D" =>
              NodeOf(t).args = <<a.data, a.weight1, a.bias1, a.weight2, a.bias2>>

C1_Witness ==
  \E t \in DOMAIN th :
    /\ Returned(t) /\ th[t].builder = "MakeDeformableConv"
    /\ Len(NodeOf(t).args) = 3
    /\ NodeOf(t).args[2] = th[t].args.offset
    /\ th[t].args.offset # th[t].args.weight

(***************************************************************************)
(* C2.  Round trip: in the attribute record of the returned call node,     *)
(* every configuration parameter the caller supplied is found in the field *)
(* of the same name with a value equal to the one supplied; nothing is     *)
(* left unset and nothing lands in another field.  (The deformable         *)
(* builder's `int channels' is found as the integer immediate of the same  *)
(* value.)                                                                 *)
(***************************************************************************)
C2_RoundTrip ==
  \A t \in DOMAIN th :
    Returned(t) =>
      \A p \in ConfigParams(th[t].builder) :
        /\ p \in DOMAIN RecordOf(t)
        /\ IF th[t].builder = "MakeDeformableConv" /\ p = "channels"
           THEN /\ RecordOf(t)[p].kind = "IntImm"
                /\ RecordOf(t)[p].value = th[t].args[p]
           ELSE RecordOf(t)[p] = th[t].args[p]

C2_Witness ==
  \E t \in DOMAIN th :
    /\ Returned(t) /\ th[t].builder = "MakeDeformableConv"
    /\ th[t].args.groups # th[t].args.deformable_groups
    /\ th[t].args.data_layout # th[t].args.kernel_layout
    /\ th[t].args.kernel_layout # th[t].args.out_layout
    /\ RecordOf(t).deformable_groups = th[t].args.deformable_groups
    /\ RecordOf(t).groups = th[t].args.groups

(***************************************************************************)
(* C3.  When op_name is not registered, the invocation ends in the         *)
(* unknown-operator error after its one lookup (no retry), and it produces *)
(* no call node: it never executes the Call statement and never returns.   *)
(***************************************************************************)
C3_UnknownOperator ==
  \A t \in DOMAIN th :
    (th[t].status # "idle" /\ ~Registered(t)) =>
      /\ ~Returned(t)
      /\ Count(th[t].trace, <<"call", "node">>) = 0
      /\ \A i \in DOMAIN nodes : nodes[i].by # InvId(t)
      /\ th[t].op = NoOp
      /\ Len(th[t].lookups) <= 1
      /\ Len(th[t].lookups) = 1 =>
           /\ Threw(t)
           /\ th[t].err = "unknown-operator"
           /\ th[t].result = 0

C3_Witness ==
  \E t \in DOMAIN th :
    /\ Threw(t) /\ ~Registered(t)
    /\ th[t].builder = "MakeFusedConv2D"
    /\ th[t].err = "unknown-operator"

(***************************************************************************)
(* C4.  Every successful MakeFusedConv2D invocation leaves num_layers = 2  *)
(* in the attribute record, whatever the lengths of the per-layer arrays;  *)
(* with arrays of length 2 the call is accepted (it fails only for an      *)
(* unregistered name) and strides_array equals the input.                  *)
(***************************************************************************)
C4_NumLayers ==
  \A t \in DOMAIN th :
    th[t].builder = "MakeFusedConv2D" =>
      /\ Returned(t) =>
           /\ "num_layers" \in DOMAIN RecordOf(t)
           /\ RecordOf(t).num_layers = 2
           /\ RecordOf(t).strides_array = th[t].args.strides_array
      /\ Threw(t) => ~Registered(t)

C4_Witness ==
  \E t \in DOMAIN th :
    /\ Returned(t) /\ th[t].builder = "MakeFusedConv2D"
    /\ Len(th[t].args.strides_array) # 2
    /\ RecordOf(t).num_layers = 2

(***************************************************************************)
(* C5.  The records built by MakeConvWinograd, MakeConvTranspose and       *)
(* MakeConvGemm agree, on each of the ten common fields, with the record   *)
(* MakeConv builds from the same ten values, whatever tile_size and        *)
(* output_padding are.                                                     *)
(***************************************************************************)
\* the arguments of the MakeConv call with the same inputs, common parameters and name
AsMakeConvArgs(a) == [p \in DOMAIN Args("MakeConv", 1, "nn.conv2d") |-> a[p]]

C5_CommonFieldsAgree ==
  \A t \in DOMAIN th :
    (Returned(t) /\ th[t].builder \in {"MakeConvWinograd", "MakeConvTranspose", "MakeConvGemm"}) =>
      LET plain == Alone("MakeConv", AsMakeConvArgs(th[t].args)) IN
        /\ plain.kind = "call"
        /\ \A i \in DOMAIN CommonParams :
             /\ CommonParams[i] \in DOMAIN RecordOf(t)
             /\ RecordOf(t)[CommonParams[i]] = plain.fields[CommonParams[i]]

C5_Witness ==
  \E t \in DOMAIN th :
    /\ Returned(t) /\ th[t].builder = "MakeConvWinograd"
    /\ RecordOf(t).tile_size = th[t].args.tile_size
    /\ th[t].args.tile_size # th[t].args.groups
    /\ RecordOf(t).groups = Alone("MakeConv", AsMakeConvArgs(th[t].args)).fields.groups

(***************************************************************************)
(* C6.  An invocation looks the operator up exactly once, by exactly the   *)
(* op_name it was passed, and the call node it returns references the      *)
(* descriptor registered under that name.                                  *)
(***************************************************************************)
C6_OneLookup ==
  \A t \in DOMAIN th :
    /\ Len(th[t].lookups) <= 1
    /\ \A i \in DOMAIN th[t].lookups : th[t].lookups[i] = th[t].args.op_name
    /\ (Returned(t) \/ Threw(t)) => th[t].lookups = <<th[t].args.op_name>>
    /\ Returned(t) => NodeOf(t).op = Registry[th[t].args.op_name]

C6_Witness ==
  \E t \in DOMAIN th :
    /\ Returned(t)
    /\ th[t].args.op_name = "nn.contrib_conv2d_winograd_without_weight_transform"
    /\ th[t].args.out_dtype = "int32"
    /\ NodeOf(t).op.descriptor = "nn.contrib_conv2d_winograd_without_weight_transform"

(***************************************************************************)
(* C7.  Invocations interleaved statement by statement from several        *)
(* threads end as they would alone: at every point the record of a running *)
(* invocation holds what the statements executed so far store when run     *)
(* alone, and the result (operator, inputs and fields of the call node, or *)
(* the unknown-operator error) is the result of the same call run alone.   *)
(***************************************************************************)
\* the machine of the same call run alone up to the statement thread t is at
AloneAt(t) ==
  AloneRun(AloneStart(th[t].args), Body(th[t].builder),
           IF Running(t) THEN th[t].pc - 1 ELSE th[t].pc)

C7_Independent ==
  \A t \in DOMAIN th :
    th[t].status # "idle" =>
      LET alone == AloneAt(t) IN
        /\ (Running(t) /\ th[t].attrs # 0) =>
             /\ heap[th[t].attrs].live
             /\ heap[th[t].attrs].by = InvId(t)
             /\ heap[th[t].attrs].fields = alone.fields
             /\ th[t].op = alone.op
        /\ Returned(t) =>
             [ kind |-> "call", op |-> NodeOf(t).op, inputs |-> NodeOf(t).args,
               fields |-> RecordOf(t) ] = alone.out
        /\ Threw(t) => [ kind |-> "error", what |-> th[t].err ] = alone.out

\* both threads have finished, and the thread that allocated first returned last
C7_Witness ==
  /\ DOMAIN th = Threads
  /\ \A t \in Threads : Returned(t)
  /\ \E t \in Threads : NodeOf(t).attrs = 1 /\ th[t].result = 2
  /\ \E t, u \in Threads : th[t].builder = "MakeConv" /\ th[u].builder = "MakeFusedConv2D"

(***************************************************************************)
(* C8.  Every declared field of the attribute record is written exactly    *)
(* once and in the order of the specification: tile_size is the first      *)
(* field MakeConvWinograd writes, MakeConvTranspose writes output_padding  *)
(* right after out_layout and before out_dtype, and the common fields      *)
(* follow the order strides, padding, dilation, groups, channels,          *)
(* kernel_size, data_layout, kernel_layout, out_layout, out_dtype.  All    *)
(* writes come after the allocation and before the lookup and the Call, so *)
(* that no call node carries a partially populated record.                 *)
(***************************************************************************)
IsPrefix(s, r) == Len(s) <= Len(r) /\ \A i \in DOMAIN s : s[i] = r[i]

SpecifiedOrder(b) ==
  CASE b = "MakeConvWinograd" -> <<"tile_size">> \o CommonParams
    [] b = "MakeConvTranspose" ->
         SubSeq(CommonParams, 1, 9) \o <<"output_padding", "out_dtype">>
    [] OTHER -> CommonParams

C8_WriteOrder ==
  /\ \A t \in DOMAIN th :
       th[t].status # "idle" =>
         LET w == Writes(t)
             tr == th[t].trace
         IN /\ \A i, j \in DOMAIN w : w[i] = w[j] => i = j
            /\ Range(w) \subseteq DeclaredFields(th[t].builder)
            /\ th[t].builder \in TwoInputBuilders => IsPrefix(w, SpecifiedOrder(th[t].builder))
            /\ \A i \in DOMAIN tr : (tr[i][1] = "new") <=> (i = 1)
            /\ \A i, j \in DOMAIN tr :
                 (i < j /\ tr[i][1] \in {"get", "call"}) => tr[j][1] \in {"get", "call"}
            /\ Count(tr, <<"get", "op">>) >= 1 => Range(w) = DeclaredFields(th[t].builder)
  /\ \A i \in DOMAIN nodes :
       /\ DOMAIN nodes[i].bound = DeclaredFields(nodes[i].builder)
       /\ DOMAIN heap[nodes[i].node.attrs].fields = DeclaredFields(nodes[i].builder)

C8_Witness ==
  \E t \in DOMAIN th :
    /\ Returned(t) /\ th[t].builder = "MakeConvTranspose"
    /\ Pos(Writes(t), "output_padding") = Pos(Writes(t), "out_layout") + 1
    /\ Pos(Writes(t), "out_dtype") = Pos(Writes(t), "output_padding") + 1
    /\ Len(Writes(t)) = 11

(***************************************************************************)
(* C9.  No builder validates its configuration: the unknown-operator error *)
(* is the only failure, a running invocation can always execute its next   *)
(* statement, and with a registered op_name the invocation does not fail.  *)
(* MakeFusedConv2D stores per-layer arrays of any lengths unchanged, next  *)
(* to num_layers = 2.                                                      *)
(***************************************************************************)
C9_NoValidation ==
  \A t \in DOMAIN th :
    /\ Threw(t) => (~Registered(t) /\ th[t].err = "unknown-operator")
    /\ Running(t) =>
         ENABLED (\/ MakeObject(t) \/ MoveAssign(t) \/ CopyAssign(t) \/ ConvertAssign(t)
                  \/ ConstAssign(t) \/ OpGet(t) \/ OpGetThrow(t) \/ MakeCall(t))
    /\ (Running(t) /\ Registered(t)) => ~ENABLED OpGetThrow(t)
    /\ (Returned(t) /\ th[t].builder = "MakeFusedConv2D") =>
         /\ \A i \in DOMAIN FusedParams :
              RecordOf(t)[FusedParams[i]] = th[t].args[FusedParams[i]]
         /\ RecordOf(t).num_layers = 2

C9_Witness ==
  \E t \in DOMAIN th :
    /\ Returned(t) /\ th[t].builder = "MakeFusedConv2D"
    /\ Len(RecordOf(t).strides_array) = 1
    /\ Len(RecordOf(t).padding_array) = 3
    /\ Len(RecordOf(t).groups_array) = 0
    /\ RecordOf(t).num_layers = 2

(***************************************************************************)
(* C10.  Every call node holds a live attribute record that the invocation *)
(* which built the node allocated; no two call nodes hold the same record, *)
(* also when they were built by the same builder from identical            *)
(* arguments; and the record still has the contents it had when the node   *)
(* was constructed, whatever ran afterwards.                               *)
(***************************************************************************)
C10_RecordOwnership ==
  /\ \A i \in DOMAIN nodes :
       /\ nodes[i].node.attrs \in Addrs
       /\ heap[nodes[i].node.attrs].live
       /\ heap[nodes[i].node.attrs].by = nodes[i].by
       /\ heap[nodes[i].node.attrs].fields = nodes[i].bound
  /\ \A i, j \in DOMAIN nodes : i # j => nodes[i].node.attrs # nodes[j].node.attrs
  /\ \A t \in DOMAIN th, i \in DOMAIN nodes :
       (Running(t) /\ th[t].attrs # 0) => nodes[i].node.attrs # th[t].attrs

C10_Witness ==
  /\ Len(nodes) = 2
  /\ nodes[1].builder = nodes[2].builder
  /\ nodes[1].bound = nodes[2].bound
  /\ nodes[1].node.op = nodes[2].node.op
  /\ nodes[1].node.args = nodes[2].node.args
  /\ nodes[1].node.attrs # nodes[2].node.attrs

====
